---- MODULE Spec2Model ----
(***************************************************************************)
(* Model of axum_l10n's LanguageIdentifierExtractor (src/src/lib.rs): the  *)
(* tower service that finds a request's locale in the URI path or in the   *)
(* Accept-Language header, rewrites the URI or answers with a redirect.    *)
(*                                                                         *)
(* Strings are sequences of one-character strings, so that split, find,    *)
(* replacen, starts_with and the parsing and formatting of language tags   *)
(* work on characters exactly as the Rust code does.                       *)
(***************************************************************************)
EXTENDS Naturals, Sequences, FiniteSets

VARIABLES
    default_lang,     \* LanguageIdentifierExtractor.default_lang
    supported_langs,  \* LanguageIdentifierExtractor.supported_langs
    redirect_mode,    \* LanguageIdentifierExtractor.redirect_mode
    excluded_paths,   \* LanguageIdentifierExtractor.excluded_paths
    op,               \* the operation that ran last ("configure": the constructor or a builder)
    req,              \* the request handed to the last call(), <<>> when another operation ran after it
    consulted,        \* the parsers call() ran, in order
    inner_calls,      \* how often call() invoked inner.call for this request
    inner_req,        \* the request inner.call received, <<>> when it was not invoked
    inner_result,     \* what the downstream handler answered, <<>> as long as it has not
    response,         \* the response of the future call() returned, <<>> as long as it is pending
    poll,             \* poll_ready: inner's readiness and what poll_ready returned
    probe,            \* a direct invocation of one of the helper methods: its inputs and its result
    in_flight         \* the futures call() returned that the downstream handler has not completed

vars == <<default_lang, supported_langs, redirect_mode, excluded_paths, op, req,
          consulted, inner_calls, inner_result, inner_req, response, poll, probe, in_flight>>

(***************************************************************************)
(* Option and Result values: <<>> is None / Err, <<x>> is Some(x) / Ok(x). *)
(***************************************************************************)
None == <<>>

Some(x) == <<x>>

Range(s) == {s[i] : i \in 1..Len(s)}

(***************************************************************************)
(* Characters.                                                             *)
(***************************************************************************)
Lower == <<"a","b","c","d","e","f","g","h","i","j","k","l","m",
           "n","o","p","q","r","s","t","u","v","w","x","y","z">>

Upper == <<"A","B","C","D","E","F","G","H","I","J","K","L","M",
           "N","O","P","Q","R","S","T","U","V","W","X","Y","Z">>

Digits == <<"0","1","2","3","4","5","6","7","8","9">>

\* a character outside ASCII: two bytes in UTF-8, both 0x80 or above
NonAsciiByte == "<E9>"

\* the byte 0x7F
Del == "<7F>"

\* a control byte other than the tab
Control == "<01>"

\* the byte 0x60
Backtick == "<60>"

\* the tab and the bytes 0x20..0x7E, in byte order
Ascii ==
    <<"\t", " ", "!", "\"", "#", "$", "%", "&", "'", "(", ")", "*", "+", ",", "-", ".", "/">>
    \o Digits \o <<":", ";", "<", "=", ">", "?", "@">>
    \o Upper \o <<"[", "\\", "]", "^", "_", Backtick>>
    \o Lower \o <<"{", "|", "}", "~">>

Alphabetic == Range(Lower) \cup Range(Upper)

Numeric == Range(Digits)

is_ascii_alphabetic(c) == c \in Alphabetic

is_ascii_digit(c) == c \in Numeric

is_ascii_alphanumeric(c) == is_ascii_alphabetic(c) \/ is_ascii_digit(c)

is_ascii(c) == c # NonAsciiByte

LowerOf == [c \in Range(Upper) |-> Lower[CHOOSE i \in 1..Len(Upper) : Upper[i] = c]]

UpperOf == [c \in Range(Lower) |-> Upper[CHOOSE i \in 1..Len(Lower) : Lower[i] = c]]

to_ascii_lowercase(c) == IF c \in DOMAIN LowerOf THEN LowerOf[c] ELSE c

to_ascii_uppercase(c) == IF c \in DOMAIN UpperOf THEN UpperOf[c] ELSE c

str_lowercase(s) == [i \in 1..Len(s) |-> to_ascii_lowercase(s[i])]

str_uppercase(s) == [i \in 1..Len(s) |-> to_ascii_uppercase(s[i])]

str_titlecase(s) ==
    [i \in 1..Len(s) |-> IF i = 1 THEN to_ascii_uppercase(s[i]) ELSE to_ascii_lowercase(s[i])]

(***************************************************************************)
(* str methods of the Rust standard library used by lib.rs.                *)
(***************************************************************************)
starts_with(s, p) == Len(p) <= Len(s) /\ SubSeq(s, 1, Len(p)) = p

\* str::find with a character predicate: the first index holding a character of cs, 0 for None
find_char(s, cs) ==
    IF \E i \in 1..Len(s) : s[i] \in cs
    THEN CHOOSE i \in 1..Len(s) : s[i] \in cs /\ \A j \in 1..(i-1) : s[j] \notin cs
    ELSE 0

\* str::find with a string pattern: the first index where pat occurs, 0 for None
find_str(s, pat) ==
    LET occurs(i) == i + Len(pat) - 1 <= Len(s) /\ SubSeq(s, i, i + Len(pat) - 1) = pat
    IN IF \E i \in 1..Len(s) : occurs(i)
       THEN CHOOSE i \in 1..Len(s) : occurs(i) /\ \A j \in 1..(i-1) : ~occurs(j)
       ELSE 0

\* str::split on any character of cs
RECURSIVE split(_, _)
split(s, cs) ==
    LET i == find_char(s, cs)
    IN IF i = 0 THEN <<s>>
       ELSE <<SubSeq(s, 1, i - 1)>> \o split(SubSeq(s, i + 1, Len(s)), cs)

\* str::replacen(from, to, count), for a non-empty pattern
RECURSIVE replacen(_, _, _, _)
replacen(s, from, to, count) ==
    LET i == find_str(s, from)
    IN IF count = 0 \/ i = 0 THEN s
       ELSE SubSeq(s, 1, i - 1) \o to
            \o replacen(SubSeq(s, i + Len(from), Len(s)), from, to, count - 1)

(***************************************************************************)
(* unic_langid::LanguageIdentifier: a record of the language subtag (<<>>  *)
(* for "und"), an optional script, an optional region and the sorted list  *)
(* of variants.  FromStr accepts '-' and '_' as separators and normalises  *)
(* the case of every subtag; Display prints the canonical form.            *)
(***************************************************************************)
Language_from_bytes(v) ==
    IF Len(v) < 2 \/ Len(v) > 8 \/ Len(v) = 4
       \/ \E i \in 1..Len(v) : ~is_ascii_alphabetic(v[i])
    THEN None
    ELSE IF str_lowercase(v) = <<"u","n","d">> THEN Some(<<>>) ELSE Some(str_lowercase(v))

Script_from_bytes(v) ==
    IF Len(v) # 4 \/ \E i \in 1..Len(v) : ~is_ascii_alphabetic(v[i])
    THEN None
    ELSE Some(str_titlecase(v))

Region_from_bytes(v) ==
    IF Len(v) = 2 /\ \A i \in 1..Len(v) : is_ascii_alphabetic(v[i]) THEN Some(str_uppercase(v))
    ELSE IF Len(v) = 3 /\ \A i \in 1..Len(v) : is_ascii_digit(v[i]) THEN Some(v)
    ELSE None

\* a subtag of 4 bytes is refused only when its first byte is no digit and one of the
\* other three is not alphanumeric
Variant_from_bytes(v) ==
    IF Len(v) < 4 \/ Len(v) > 8 \/ \E i \in 1..Len(v) : ~is_ascii(v[i])
    THEN None
    ELSE IF \/ Len(v) >= 5 /\ \E i \in 1..Len(v) : ~is_ascii_alphanumeric(v[i])
            \/ Len(v) = 4 /\ ~is_ascii_digit(v[1])
                    /\ \E i \in 2..Len(v) : ~is_ascii_alphanumeric(v[i])
    THEN None
    ELSE Some(str_lowercase(v))

\* the characters in byte order
Bytes == <<Control>> \o Ascii \o <<Del, NonAsciiByte>>

\* byte order of the characters of a variant subtag, which may hold any ASCII byte
RankOf == [c \in Range(Bytes) |-> CHOOSE i \in 1..Len(Bytes) : Bytes[i] = c]

char_rank(c) == RankOf[c]

str_less(a, b) ==
    \E i \in 1..(Len(a) + 1) :
        /\ \A j \in 1..(i-1) : j <= Len(b) /\ a[j] = b[j]
        /\ \/ i = Len(a) + 1 /\ Len(b) > Len(a)
           \/ i <= Len(a) /\ i <= Len(b) /\ char_rank(a[i]) < char_rank(b[i])

\* variants.sort(); variants.dedup()
RECURSIVE sort_dedup(_)
sort_dedup(set) ==
    IF set = {} THEN <<>>
    ELSE LET m == CHOOSE x \in set : \A y \in set \ {x} : str_less(x, y)
         IN <<m>> \o sort_dedup(set \ {m})

RECURSIVE parse_subtags(_, _, _, _)
parse_subtags(subtags, i, position, acc) ==
    IF i > Len(subtags) THEN Some([acc EXCEPT !.variants = sort_dedup(Range(acc.variants))])
    ELSE LET st == subtags[i]
         IN IF position = 1 /\ Script_from_bytes(st) # None
            THEN parse_subtags(subtags, i + 1, 2, [acc EXCEPT !.script = Script_from_bytes(st)])
            ELSE IF position <= 2 /\ Region_from_bytes(st) # None
            THEN parse_subtags(subtags, i + 1, 3, [acc EXCEPT !.region = Region_from_bytes(st)])
            ELSE IF Variant_from_bytes(st) # None
            THEN parse_subtags(subtags, i + 1, 3,
                               [acc EXCEPT !.variants = Append(@, Variant_from_bytes(st)[1])])
            ELSE None

\* str::parse::<LanguageIdentifier>(): None is the ParserError
parse_langid(t) ==
    LET subtags == split(t, {"-", "_"})
        language == Language_from_bytes(subtags[1])
    IN IF language = None THEN None
       ELSE parse_subtags(subtags, 2, 1,
                [language |-> language[1], script |-> None, region |-> None, variants |-> <<>>])

\* Language's Display
language_to_string(language) == IF language = <<>> THEN <<"u","n","d">> ELSE language

RECURSIVE join_variants(_)
join_variants(vs) == IF vs = <<>> THEN <<>> ELSE <<"-">> \o Head(vs) \o join_variants(Tail(vs))

\* LanguageIdentifier's Display
langid_to_string(ident) ==
    language_to_string(ident.language)
    \o (IF ident.script = None THEN <<>> ELSE <<"-">> \o ident.script[1])
    \o (IF ident.region = None THEN <<>> ELSE <<"-">> \o ident.region[1])
    \o join_variants(ident.variants)

(***************************************************************************)
(* http::Uri: origin is the text before the path, scheme "://" authority   *)
(* ("http://h"), the authority alone for an authority-form URI, or empty   *)
(* for an origin-form URI; path the path, query the optional query string. *)
(***************************************************************************)
has_scheme(uri) == find_str(uri.origin, <<":", "/", "/">>) # 0

\* Uri::path(): with a scheme an empty path reads as "/", an authority-form URI has none
uri_path(uri) ==
    IF uri.path # <<>> THEN uri.path
    ELSE IF uri.origin # <<>> /\ ~has_scheme(uri) THEN <<>>
    ELSE <<"/">>

\* Uri::query()
uri_query(uri) == uri.query

\* Uri's Display (uri.to_string())
uri_to_string(uri) ==
    uri.origin \o uri_path(uri)
    \o (IF uri_query(uri) = None THEN <<>> ELSE <<"?">> \o uri_query(uri)[1])

\* the bytes PathAndQuery::from_shared accepts in a path: 0x7F and the bytes above it
\* are among them
PathChars == (Range(Ascii) \ {"\t", " ", "#", "<", ">", "?", Backtick}) \cup {Del, NonAsciiByte}

\* the bytes PathAndQuery::from_shared accepts in a query
QueryChars == (Range(Ascii) \ {"\t", " ", "\"", "#", "<", ">"}) \cup {Del, NonAsciiByte}

\* SCHEME_CHARS without the ':'
SchemeChars == Alphabetic \cup Numeric \cup {"+", "-", ".", "~"}

\* the longest scheme Scheme2::parse accepts
MAX_SCHEME_LEN == 64

\* the most ':' Authority::parse counts before it gives up
MAX_COLONS == 8

\* the longest text Uri::from_shared accepts
MAX_LEN == 65534

\* URI_CHARS without '/', '?' and '#', which end the authority; '%' is tracked apart
AuthorityChars ==
    Alphabetic \cup Numeric
    \cup {"!", "$", "&", "'", "(", ")", "*", "+", ",", "-", ".", ":", ";", "=", "@", "[", "]",
          "_", "~"}

\* PathAndQuery::from_shared: the query starts at the first '?', a fragment is dropped;
\* None is InvalidUriChar
parse_path_and_query(origin, s) ==
    LET h == find_char(s, {"#"})
        pq == IF h = 0 THEN s ELSE SubSeq(s, 1, h - 1)
        q == find_char(pq, {"?"})
        path == IF q = 0 THEN pq ELSE SubSeq(pq, 1, q - 1)
        query == IF q = 0 THEN None ELSE Some(SubSeq(pq, q + 1, Len(pq)))
    IN IF \E i \in 1..Len(path) : path[i] \notin PathChars THEN None
       ELSE IF query # None /\ \E i \in 1..Len(query[1]) : query[1][i] \notin QueryChars
       THEN None
       ELSE Some([origin |-> origin, path |-> path, query |-> query])

\* the loop of Authority::parse over the bytes of s from index i on: the index of the
\* byte that ends the authority (Len(s) + 1 at the end of s), 0 for an error
RECURSIVE authority_scan(_, _, _)
authority_scan(s, i, st) ==
    IF i > Len(s) \/ s[i] \in {"/", "?", "#"}
    THEN IF \/ st.start_bracket # st.end_bracket
            \/ st.colon_cnt > 1
            \/ i > 1 /\ st.at_sign_pos = i - 1
            \/ st.has_percent
         THEN 0 ELSE i
    ELSE IF s[i] = ":"
    THEN IF st.colon_cnt >= MAX_COLONS THEN 0
         ELSE authority_scan(s, i + 1, [st EXCEPT !.colon_cnt = @ + 1])
    ELSE IF s[i] = "["
    THEN IF st.has_percent \/ st.start_bracket THEN 0
         ELSE authority_scan(s, i + 1, [st EXCEPT !.start_bracket = TRUE])
    ELSE IF s[i] = "]"
    THEN IF ~st.start_bracket \/ st.end_bracket THEN 0
         ELSE authority_scan(s, i + 1,
                [st EXCEPT !.end_bracket = TRUE, !.colon_cnt = 0, !.has_percent = FALSE])
    ELSE IF s[i] = "@"
    THEN authority_scan(s, i + 1,
                [st EXCEPT !.at_sign_pos = i, !.colon_cnt = 0, !.has_percent = FALSE])
    ELSE IF s[i] = "%" THEN authority_scan(s, i + 1, [st EXCEPT !.has_percent = TRUE])
    ELSE IF s[i] \notin AuthorityChars THEN 0
    ELSE authority_scan(s, i + 1, st)

\* Authority::parse: the length of the authority s starts with, None for an error;
\* an empty s is an error
authority_end(s) ==
    LET e == authority_scan(s, 1, [colon_cnt |-> 0, start_bracket |-> FALSE,
                                   end_bracket |-> FALSE, has_percent |-> FALSE,
                                   at_sign_pos |-> 0])
    IN IF s = <<>> \/ e = 0 THEN None ELSE Some(e - 1)

\* Scheme2::parse: kind "Standard" for http and https, "Other" for another scheme, with
\* the scheme as Display prints it and the text after "://"; "None" when s has no scheme,
\* "Err" for SchemeTooLong.  The scan ends at the first byte SCHEME_CHARS maps to ':' or 0.
scheme_parse(s) ==
    LET stops == {i \in 1..Len(s) : s[i] \notin SchemeChars}
        stop == IF stops = {} THEN 0 ELSE CHOOSE i \in stops : \A j \in stops : i <= j
        no_scheme == [kind |-> "None", scheme |-> <<>>, rest |-> s]
    IN IF Len(s) >= 7 /\ str_lowercase(SubSeq(s, 1, 7)) = <<"h","t","t","p",":","/","/">>
       THEN [kind |-> "Standard", scheme |-> <<"h","t","t","p">>, rest |-> SubSeq(s, 8, Len(s))]
       ELSE IF Len(s) >= 8
               /\ str_lowercase(SubSeq(s, 1, 8)) = <<"h","t","t","p","s",":","/","/">>
       THEN [kind |-> "Standard", scheme |-> <<"h","t","t","p","s">>,
             rest |-> SubSeq(s, 9, Len(s))]
       ELSE IF Len(s) > 3 /\ stop # 0 /\ s[stop] = ":" /\ Len(s) >= stop + 2
               /\ SubSeq(s, stop + 1, stop + 2) = <<"/", "/">>
       THEN IF stop - 1 > MAX_SCHEME_LEN THEN [kind |-> "Err", scheme |-> <<>>, rest |-> <<>>]
            ELSE [kind |-> "Other", scheme |-> SubSeq(s, 1, stop - 1),
                  rest |-> SubSeq(s, stop + 3, Len(s))]
       ELSE no_scheme

\* String::len(): the number of bytes of the UTF-8 text
byte_len(s) == Len(s) + Cardinality({i \in 1..Len(s) : s[i] = NonAsciiByte})

\* http::Uri::try_from(String): None is InvalidUri
uri_try_from(s) ==
    IF s = <<>> \/ byte_len(s) > MAX_LEN THEN None
    ELSE IF s = <<"*">> THEN Some([origin |-> <<>>, path |-> s, query |-> None])
    ELSE IF s[1] = "/" THEN parse_path_and_query(<<>>, s)
    ELSE LET scheme == scheme_parse(s)
             rest == scheme.rest
             e == authority_end(rest)
         IN IF scheme.kind = "Err" \/ e = None THEN None
            ELSE IF scheme.kind = "None"
            THEN IF e[1] # Len(s) THEN None
                 ELSE Some([origin |-> s, path |-> <<>>, query |-> None])
            ELSE IF e[1] = 0 THEN None
            ELSE parse_path_and_query(scheme.scheme \o <<":", "/", "/">>
                                            \o SubSeq(rest, 1, e[1]),
                                      SubSeq(rest, e[1] + 1, Len(rest)))

(***************************************************************************)
(* http::HeaderMap, reduced to its Accept-Language entry: None when the    *)
(* header is missing, Some(bytes) otherwise.                               *)
(***************************************************************************)
\* the bytes HeaderValue::to_str accepts: 0x20..0x7E and the tab
VisibleAscii == Range(Ascii)

\* HeaderValue::to_str(): None (ToStrError) unless every byte is visible ASCII or a tab
header_to_str(val) == IF \A i \in 1..Len(val) : val[i] \in VisibleAscii THEN Some(val) ELSE None

\* the bytes a HeaderValue built from a String may hold: the tab and every byte from 0x20
\* on but 0x7F
HeaderValueChars == Range(Ascii) \cup {NonAsciiByte}

\* HeaderValue::try_from(String): None is InvalidHeaderValue
header_value_try_from(s) ==
    IF \A i \in 1..Len(s) : s[i] \in HeaderValueChars THEN Some(s) ELSE None

(***************************************************************************)
(* RedirectMode and the methods of LanguageIdentifierExtractor.            *)
(***************************************************************************)
RedirectMode == {"NoRedirect", "RedirectToFullLocaleSubPath", "RedirectToLanguageSubPath"}

\* StatusCode::FOUND
FOUND == 302

\* supported comparing whole identifiers instead of their language subtags
supported_full_match(path_ident) ==
    \E i \in 1..Len(supported_langs) : supported_langs[i] = path_ident

\* self.supported_langs.iter().find(|ident| ident.language == path_ident.language).is_some()
supported(path_ident) ==
    \E i \in 1..Len(supported_langs) : supported_langs[i].language = path_ident.language

\* lang_code_from_uri without the self.supported(&path_ident) test
lang_code_from_uri_unchecked(uri) ==
    LET path_parts == split(uri_path(uri), {"/"})
    IN IF Len(path_parts) < 2 THEN None ELSE parse_langid(path_parts[2])

lang_code_from_uri(uri) ==
    LET path_parts == split(uri_path(uri), {"/"})
    IN IF Len(path_parts) < 2 THEN None
       ELSE LET path_ident == parse_langid(path_parts[2])
            IN IF path_ident = None THEN None
               ELSE IF supported(path_ident[1]) THEN path_ident ELSE None

\* |part| part.find(|c| c == ';').map(|i| &part[..i]).unwrap_or(part)
strip_quality(part) ==
    LET i == find_char(part, {";"})
    IN IF i = 0 THEN part ELSE SubSeq(part, 1, i - 1)

\* the scan ending at the first entry that fails to parse (map_while instead of filter_map)
RECURSIVE find_supported_stops_at_unparsable(_)
find_supported_stops_at_unparsable(ident_strs) ==
    IF ident_strs = <<>> THEN None
    ELSE LET ident == parse_langid(Head(ident_strs))
         IN IF ident = None THEN None
            ELSE IF supported(ident[1]) THEN ident
            ELSE find_supported_stops_at_unparsable(Tail(ident_strs))

\* .filter_map(|ident_str| ident_str.parse().ok()).find(|ident| self.supported(ident))
RECURSIVE find_supported(_)
find_supported(ident_strs) ==
    IF ident_strs = <<>> THEN None
    ELSE LET ident == parse_langid(Head(ident_strs))
         IN IF ident # None /\ supported(ident[1]) THEN ident
            ELSE find_supported(Tail(ident_strs))

\* the Header Parser taking the first list entry that parses, without .find(|ident| self.supported(ident))
lang_code_from_headers_first_parsable(headers) ==
    LET val == IF headers = None THEN None ELSE header_to_str(headers[1])
    IN IF val = None THEN None
       ELSE LET accept_lang == val[1]
                whole == parse_langid(accept_lang)
                parts == SelectSeq(split(accept_lang, {","}), LAMBDA part : part # <<>>)
                idents == SelectSeq([i \in 1..Len(parts) |-> parse_langid(strip_quality(parts[i]))],
                                    LAMBDA ident : ident # None)
            IN IF whole # None /\ supported(whole[1]) THEN whole
               ELSE IF idents = <<>> THEN None ELSE Head(idents)

lang_code_from_headers(headers) ==
    LET val == IF headers = None THEN None ELSE header_to_str(headers[1])
    IN IF val = None THEN None
       ELSE LET accept_lang == val[1]
                whole == parse_langid(accept_lang)
                parts == SelectSeq(split(accept_lang, {","}), LAMBDA part : part # <<>>)
            IN IF whole # None /\ supported(whole[1]) THEN whole
               ELSE find_supported([i \in 1..Len(parts) |-> strip_quality(parts[i])])

\* the locale's representation in a URI; unreachable!() in NoRedirect mode
lang_code(ident) ==
    CASE redirect_mode = "RedirectToFullLocaleSubPath" -> langid_to_string(ident)
      [] redirect_mode = "RedirectToLanguageSubPath" -> language_to_string(ident.language)

\* the Uri rewrite_uri leaves in *uri, None for Err(InvalidUri)
rewrite_uri(uri, ident) ==
    uri_try_from(replacen(uri_to_string(uri), <<"/">> \o lang_code(ident) \o <<"/">>, <<"/">>, 1))

build_redirect_path(request) ==
    LET preferred_ident == lang_code_from_headers(request.headers)
        ident == IF preferred_ident # None THEN preferred_ident[1] ELSE default_lang
    IN <<"/">> \o lang_code(ident) \o uri_path(request.uri)
       \o (IF uri_query(request.uri) = None THEN <<>> ELSE <<"?">> \o uri_query(request.uri)[1])

\* the exclusion test comparing whole paths instead of prefixes
is_excluded_exact(path) == \E i \in 1..Len(excluded_paths) : path = excluded_paths[i]

\* |excluded| path.starts_with(excluded), for any entry
is_excluded(path) == \E i \in 1..Len(excluded_paths) : starts_with(path, excluded_paths[i])

(***************************************************************************)
(* call(): what it does with request before it returns the future.         *)
(* consulted lists the parsers it ran; a failed expect() is the response   *)
(* "panic".  On a pass-through inner.call has run when call() returns and  *)
(* the future is the downstream handler's: inner_result and response stay  *)
(* <<>> until that future completes.  The redirect is built inside call(). *)
(***************************************************************************)
\* Box::pin(self.inner.call(req))
forward(request, extension, parsers) ==
    [consulted |-> parsers, inner_calls |-> 1,
     inner_req |-> Some([uri |-> request.uri, headers |-> request.headers,
                         extensions |-> extension]),
     inner_result |-> None,
     response |-> None]

\* the future of a pass-through answering a downstream error with a response of its own
future_output_hides_error(inner_answer) ==
    IF inner_answer.kind = "error"
    THEN [kind |-> "response", status |-> 500, location |-> None, body |-> <<>>]
    ELSE inner_answer

\* what the future of a pass-through yields when the downstream handler's future yields
\* inner_answer: it is that future, boxed
future_output(inner_answer) == inner_answer

\* call() ending without the downstream handler: resp is the response of its future, or
\* the "panic" of a failed expect()
answer(resp, parsers) ==
    [consulted |-> parsers, inner_calls |-> 0, inner_req |-> None, inner_result |-> None,
     response |-> Some(resp)]

\* Response::builder().status(FOUND).header("Location", new_path).body(empty)
\* .expect("Valid response"): the builder fails when new_path is no header value
respond(new_path, parsers) ==
    IF header_value_try_from(new_path) = None THEN answer([kind |-> "panic"], parsers)
    ELSE answer([kind |-> "response", status |-> FOUND, location |-> Some(new_path),
                 body |-> <<>>],
                parsers)

\* the NoRedirect arm with None => self.default_lang.clone() replaced by the first supported locale
call_no_redirect_first_supported(request) ==
    LET lang_ident == lang_code_from_headers(request.headers)
        ident == IF lang_ident # None THEN lang_ident[1] ELSE supported_langs[1]
    IN forward(request, Some(ident), <<"header">>)

\* the NoRedirect arm of call()
call_no_redirect(request) ==
    LET lang_ident == lang_code_from_headers(request.headers)
        ident == IF lang_ident # None THEN lang_ident[1] ELSE default_lang
    IN forward(request, Some(ident), <<"header">>)

\* the RedirectToFullLocaleSubPath | RedirectToLanguageSubPath arm of call()
call_sub_path(request) ==
    LET lang_ident == lang_code_from_uri(request.uri)
    IN IF lang_ident # None
       THEN LET uri == rewrite_uri(request.uri, lang_ident[1])
            IN IF uri = None THEN answer([kind |-> "panic"], <<"path">>)
               ELSE forward([request EXCEPT !.uri = uri[1]], lang_ident, <<"path">>)
       ELSE IF is_excluded(uri_path(request.uri))
       THEN forward(request, None, <<"path">>)
       ELSE respond(build_redirect_path(request), <<"path", "header">>)

call_result(request) ==
    IF redirect_mode = "NoRedirect"
    THEN call_no_redirect(request)
    ELSE call_sub_path(request)

\* poll_ready(): self.inner.poll_ready(cx)
poll_ready_result(inner_ready) == inner_ready

(***************************************************************************)
(* Localizer (src/src/fluent.rs): locales is the HashMap from a            *)
(* LanguageIdentifier to the Bundle registered under it, a function here.  *)
(* A Bundle is known by the locale and the FTL files it was built from.    *)
(***************************************************************************)
\* Localizer::new(): HashMap::new()
Localizer_new == [k \in {} |-> None]

\* an FTL path std::fs::read_to_string fails on
UnreadableFtl == "missing.ftl"

\* an FTL path whose text FluentResource::try_new fails on
UnparsableFtl == "bad.ftl"

\* add_bundle(locale, ftl_paths): the locales it leaves; a file that cannot be read or
\* parsed returns Err before the insert, otherwise the bundle replaces the one under an
\* equal key
add_bundle(locales, locale, ftl_paths) ==
    IF \E i \in 1..Len(ftl_paths) : ftl_paths[i] \in {UnreadableFtl, UnparsableFtl} THEN locales
    ELSE [k \in DOMAIN locales \cup {locale} |->
            IF k = locale THEN [locale |-> locale, resources |-> ftl_paths] ELSE locales[k]]

\* get_locale looking for a language match before the full match
get_locale_language_first(locales, keys, locale) ==
    LET matches == SelectSeq(keys, LAMBDA k : k.language = locale.language)
    IN IF matches # <<>> THEN Some(locales[Head(matches)])
       ELSE IF locale \in DOMAIN locales THEN Some(locales[locale])
       ELSE None

\* get_locale(locale); keys is self.locales.keys(), the keys in the HashMap's iteration order
get_locale(locales, keys, locale) ==
    LET matches == SelectSeq(keys, LAMBDA k : k.language = locale.language)
    IN IF locale \in DOMAIN locales THEN Some(locales[locale])
       ELSE IF matches # <<>> THEN Some(locales[Head(matches)])
       ELSE None

(***************************************************************************)
(* Bounded inputs.                                                         *)
(***************************************************************************)
\* the most path segments of a request URI
MaxSegs == 2

\* the most comma-separated entries of an Accept-Language value
MaxEntries == 2

\* langid!(tag)
langid(tag) == parse_langid(tag)[1]

ENGLISH == langid(<<"e","n">>)

JAPANESE == langid(<<"j","a">>)

GERMAN == langid(<<"d","e">>)

ENGLISH_US == langid(<<"e","n","-","U","S">>)

ENGLISH_GB == langid(<<"e","n","-","G","B">>)

\* the supported_langs and default_lang handed to new(): those of the unit tests, and a
\* region-qualified list with a default locale that is not in it
NewArguments ==
    {[supported_langs |-> <<ENGLISH, JAPANESE>>, default_lang |-> ENGLISH],
     [supported_langs |-> <<ENGLISH_US>>, default_lang |-> GERMAN]}

ExcludedChoices == {<<<<"/","s","t","a","t","i","c">>, <<"/","l","i","s","t","s">>>>, <<>>}

Idents == {ENGLISH, ENGLISH_US, JAPANESE, GERMAN, langid(<<"j","a","-","J","P">>)}

\* the locales handed to rewrite_uri
RewriteIdents == {ENGLISH, ENGLISH_US, GERMAN}

Segments ==
    {<<"e","n">>, <<"E","N">>, <<"e","n","-","U","S">>, <<"d","e">>,
     <<"l","i","s","t","s">>, <<NonAsciiByte>>, <<>>}

RECURSIVE PathsOf(_)
PathsOf(n) ==
    IF n = 0 THEN {<<>>}
    ELSE {p \o <<"/">> \o seg : p \in PathsOf(n - 1), seg \in Segments}

Paths == UNION {PathsOf(n) : n \in 1..MaxSegs}

Queries == {None, Some(<<"p","a","g","e","=","1">>), Some(<<"r","=","/","e","n","/">>)}

\* origin form, and absolute form with a host that has and one that has not the text of
\* a locale
Origins == {<<>>, <<"h","t","t","p",":","/","/","h">>, <<"h","t","t","p",":","/","/","e","n">>}

\* a first segment with variants that hold the byte 0x7F, of a supported and of an
\* unsupported language; a segment that is no host name; the authority form and the
\* asterisk form, whose paths have no '/'
OtherUris ==
    {[origin |-> <<>>, query |-> None,
      path |-> <<"/","e","n","-","1",Del,"b","c","-","1","a","b","c","/","x">>],
     [origin |-> <<>>, query |-> None,
      path |-> <<"/","l","i","s","t","s","-","1",Del,"b","c","/","x">>],
     [origin |-> <<"h","t","t","p",":","/","/","e","n">>, query |-> None,
      path |-> <<"/","e","n","-","1","{","z","z","/","x">>],
     [origin |-> <<"e","n">>, path |-> <<>>, query |-> None],
     [origin |-> <<>>, path |-> <<"*">>, query |-> None]}

Uris ==
    {[origin |-> o, path |-> p, query |-> q] : o \in Origins, p \in Paths, q \in Queries}
    \cup OtherUris

HeaderEntries ==
    {<<"e","n","-","U","S">>, <<"e","n","-","U","S",";","q","=","0",".","5">>,
     <<"e","n",";","q","=","0",".","5">>, <<"j","a",";","q","=","0",".","9">>,
     <<"d","e">>, <<"*">>, <<" ","e","n">>, <<>>}

RECURSIVE HeaderTextsOf(_)
HeaderTextsOf(n) ==
    IF n = 1 THEN HeaderEntries
    ELSE {h \o <<",">> \o e : h \in HeaderTextsOf(n - 1), e \in HeaderEntries}

\* no header, a header that is not visible ASCII, and the lists of entries
HeaderValues ==
    {None, Some(<<"e","n",NonAsciiByte>>)}
    \cup {Some(h) : h \in UNION {HeaderTextsOf(n) : n \in 1..MaxEntries}}

\* the headers of the requests handed to call()
CallHeaders ==
    {None, Some(<<"e","n",NonAsciiByte>>),
     Some(<<"j","a",";","q","=","0",".","9">>),
     Some(<<"e","n","-","U","S",",","e","n",";","q","=","0",".","5">>),
     Some(<<"d","e",",","e","n","-","U","S",";","q","=","0",".","5">>)}

\* the URIs of the requests handed to call(), in origin form and in absolute form
RequestUris ==
    {[origin |-> <<>>, path |-> p, query |-> None] :
        p \in {<<"/">>, <<"/","l","i","s","t","s">>, <<"/","e","n">>,
               <<"/","e","n","/","l","i","s","t","s">>,
               <<"/","E","N","/","l","i","s","t","s">>,
               <<"/","e","n","-","U","S","/","l","i","s","t","s">>,
               <<"/","l","i","s","t","s","/","e","n">>,
               <<"/","e","n","/",NonAsciiByte>>, <<"/",NonAsciiByte>>, <<"/",Del>>}}
    \cup {[origin |-> <<>>, path |-> <<"/">>, query |-> Some(<<"p","a","g","e","=","1">>)],
          [origin |-> <<>>, path |-> <<"/","e","n">>,
           query |-> Some(<<"r","=","/","e","n","/">>)],
          [origin |-> <<"h","t","t","p",":","/","/","h">>,
           path |-> <<"/","e","n","/","l","i","s","t","s">>, query |-> None]}
    \cup {u \in OtherUris : u.path # <<>> /\ u.path[1] = "/"}

Requests == {[uri |-> u, headers |-> h] : u \in RequestUris, h \in CallHeaders}

\* what the downstream handler answers: a response or its error
InnerAnswers ==
    {[kind |-> "response", status |-> 200, location |-> None, body |-> <<"o","k">>],
     [kind |-> "error"]}

Readiness == {"Pending", "Ready(Ok)", "Ready(Err)"}

\* the most futures of the downstream handler that are pending at a time
MaxInFlight == 2

\* the most redirects a client follows for one request
MaxHops == 2

(***************************************************************************)
(* The service.  Besides the four fields of the service the state keeps    *)
(* what the last operation was given and what it has produced so far, and  *)
(* the number of futures returned by call() that are still pending.  Every *)
(* operation can follow every other; each one puts its own record in the   *)
(* place of the last one's.                                                *)
(***************************************************************************)
Idle ==
    /\ req = None
    /\ consulted = <<>>
    /\ inner_calls = 0
    /\ inner_req = None
    /\ inner_result = None
    /\ response = None
    /\ poll = None
    /\ probe = None

IdleNext ==
    /\ req' = None
    /\ consulted' = <<>>
    /\ inner_calls' = 0
    /\ inner_req' = None
    /\ inner_result' = None
    /\ response' = None
    /\ poll' = None
    /\ probe' = None

\* LanguageIdentifierExtractor::new(inner, supported_langs, default_lang)
new ==
    /\ \E args \in NewArguments :
        /\ supported_langs = args.supported_langs
        /\ default_lang = args.default_lang
    /\ redirect_mode = "NoRedirect"
    /\ excluded_paths = <<>>
    /\ op = "configure"
    /\ in_flight = 0
    /\ Idle

Init == new

\* the builder redirect(redirect_mode)
redirect ==
    \E mode \in RedirectMode :
        /\ redirect_mode' = mode
        /\ op' = "configure"
        /\ IdleNext
        /\ UNCHANGED <<default_lang, supported_langs, excluded_paths, in_flight>>

\* the builder excluded_paths(paths_to_exclude)
set_excluded_paths ==
    \E paths_to_exclude \in ExcludedChoices :
        /\ excluded_paths' = paths_to_exclude
        /\ op' = "configure"
        /\ IdleNext
        /\ UNCHANGED <<default_lang, supported_langs, redirect_mode, in_flight>>

poll_ready ==
    \E inner_ready \in Readiness :
        /\ poll' = Some([inner |-> inner_ready, outer |-> poll_ready_result(inner_ready)])
        /\ op' = "poll_ready"
        /\ req' = None
        /\ consulted' = <<>>
        /\ inner_calls' = 0
        /\ inner_req' = None
        /\ inner_result' = None
        /\ response' = None
        /\ probe' = None
        /\ UNCHANGED <<default_lang, supported_langs, redirect_mode, excluded_paths, in_flight>>

\* the future the last call() returned is the downstream handler's and is pending
Pending == inner_calls = 1 /\ inner_result = None

\* call(request) up to its return, with a future of the downstream handler on a pass-through
Call(request) ==
    \E r \in {call_result(request)} :
        /\ r.inner_calls = 1 => in_flight < MaxInFlight
        /\ req' = Some(request)
        /\ consulted' = r.consulted
        /\ inner_calls' = r.inner_calls
        /\ inner_req' = r.inner_req
        /\ inner_result' = r.inner_result
        /\ response' = r.response
        /\ in_flight' = in_flight + r.inner_calls
        /\ poll' = None
        /\ UNCHANGED <<default_lang, supported_langs, redirect_mode, excluded_paths>>

call ==
    \E request \in Requests :
        /\ Call(request)
        /\ op' = "call"
        /\ probe' = None

\* the future the last call() returned completes with the downstream handler's answer
complete ==
    /\ Pending
    /\ \E inner_answer \in InnerAnswers :
        /\ inner_result' = Some(inner_answer)
        /\ response' = Some(future_output(inner_answer))
    /\ in_flight' = in_flight - 1
    /\ UNCHANGED <<default_lang, supported_langs, redirect_mode, excluded_paths, op, req,
                   consulted, inner_calls, inner_req, poll, probe>>

\* the future of an earlier call() completes; its record has been replaced since
complete_earlier ==
    /\ in_flight > (IF Pending THEN 1 ELSE 0)
    /\ in_flight' = in_flight - 1
    /\ UNCHANGED <<default_lang, supported_langs, redirect_mode, excluded_paths, op, req,
                   consulted, inner_calls, inner_req, inner_result, response, poll, probe>>

\* call() on the request a client makes when it follows the Location of the 302 the last
\* call() answered, with the headers it sent before; probe keeps its first request, the
\* Location and the number of redirects it has followed
follow ==
    /\ op \in {"call", "follow"}
    /\ inner_calls = 0
    /\ response # None
    /\ response[1].kind = "response"
    /\ response[1].status = FOUND
    /\ op = "follow" => probe[1].hops < MaxHops
    /\ \E target \in {uri_try_from(response[1].location[1])} :
        /\ target # None
        /\ Call([uri |-> target[1], headers |-> req[1].headers])
        /\ op' = "follow"
        /\ probe' = Some([input |-> IF op = "follow" THEN probe[1].input ELSE req[1],
                          output |-> response[1].location[1],
                          hops |-> IF op = "follow" THEN probe[1].hops + 1 ELSE 1])

Next ==
    \/ redirect
    \/ set_excluded_paths
    \/ poll_ready
    \/ call
    \/ complete
    \/ complete_earlier
    \/ follow

Spec == Init /\ [][Next]_vars

(***************************************************************************)
(* The helper methods and Localizer::get_locale are functions of their     *)
(* arguments and of the fields they read.  Each is checked on a service    *)
(* as new() and the builders leave it, with its arguments drawn at the     *)
(* start, as the unit tests of lib.rs and fluent.rs call them.             *)
(***************************************************************************)
\* the most add_bundle calls made on a Localizer
MaxBundles == 2

BundleLocales == {ENGLISH, JAPANESE, ENGLISH_US, ENGLISH_GB}

FtlPaths ==
    {<<"main.ftl", "sub.ftl">>, <<"main.ftl">>, <<"main.ftl", UnreadableFtl>>, <<UnparsableFtl>>}

\* the locales of a Localizer after n add_bundle calls
RECURSIVE LocalesAfter(_)
LocalesAfter(n) ==
    IF n = 0 THEN {Localizer_new}
    ELSE {add_bundle(locales, locale, ftl_paths) :
            locales \in LocalesAfter(n - 1), locale \in BundleLocales, ftl_paths \in FtlPaths}

Registries == UNION {LocalesAfter(n) : n \in 0..MaxBundles}

\* the orders in which a HashMap may iterate over the keys
IterationOrders(keys) ==
    {order \in [1..Cardinality(keys) -> keys] :
        \A i, j \in 1..Cardinality(keys) : order[i] = order[j] => i = j}

\* a URI whose path names the locale twice in a row
NestedUris ==
    {[origin |-> <<>>, path |-> <<"/","e","n","/","e","n","/","l","i","s","t","s">>,
      query |-> None],
     [origin |-> <<>>, path |-> <<"/","e","n","/","l","i","s","t","s","/","e","n","/","x">>,
      query |-> None]}

\* the methods invoked and the arguments they are invoked with
Invocations(method) ==
    CASE method = "supported" -> Idents
      [] method = "lang_code_from_uri" -> Uris
      [] method = "lang_code_from_headers" -> HeaderValues
      [] method = "rewrite_uri" ->
            {[uri |-> uri, ident |-> ident] : uri \in Uris, ident \in RewriteIdents}
      [] method = "rewrite_uri_twice" ->
            {[uri |-> uri, ident |-> ident] : uri \in Uris \cup NestedUris, ident \in RewriteIdents}
      [] method = "get_locale" ->
            UNION {{[locales |-> locales, keys |-> keys, locale |-> locale] :
                        keys \in IterationOrders(DOMAIN locales),
                        locale \in BundleLocales \cup {GERMAN}} :
                   locales \in Registries}

Methods ==
    {"supported", "lang_code_from_uri", "lang_code_from_headers", "rewrite_uri",
     "rewrite_uri_twice", "get_locale"}

\* a service after new() and the builders, before any request, and the invocation to make
InitHelpers ==
    /\ \E args \in NewArguments :
        /\ supported_langs = args.supported_langs
        /\ default_lang = args.default_lang
    /\ redirect_mode \in RedirectMode
    /\ excluded_paths \in ExcludedChoices
    /\ op = "configure"
    /\ in_flight = 0
    /\ req = None
    /\ consulted = <<>>
    /\ inner_calls = 0
    /\ inner_req = None
    /\ inner_result = None
    /\ response = None
    /\ poll = None
    /\ \E method \in Methods :
        \E input \in Invocations(method) : probe = Some([method |-> method, input |-> input])

\* the invocation of the method: probe gets its result
Invoke(name, output) ==
    /\ probe[1].method = name
    /\ probe' = Some([method |-> name, input |-> probe[1].input, output |-> output])
    /\ op' = name
    /\ UNCHANGED <<default_lang, supported_langs, redirect_mode, excluded_paths, req,
                   consulted, inner_calls, inner_req, inner_result, response, poll, in_flight>>

invoke_supported ==
    /\ probe # None
    /\ Invoke("supported", supported(probe[1].input))

invoke_lang_code_from_uri ==
    /\ probe # None
    /\ Invoke("lang_code_from_uri", lang_code_from_uri(probe[1].input))

invoke_lang_code_from_headers ==
    /\ probe # None
    /\ Invoke("lang_code_from_headers", lang_code_from_headers(probe[1].input))

\* rewrite_uri panics (unreachable!()) in NoRedirect mode
invoke_rewrite_uri ==
    /\ redirect_mode # "NoRedirect"
    /\ Invoke("rewrite_uri", rewrite_uri(probe[1].input.uri, probe[1].input.ident))

\* rewrite_uri applied to a URI and then again, with the same locale, to the URI it left
invoke_rewrite_uri_twice ==
    /\ redirect_mode # "NoRedirect"
    /\ LET once == rewrite_uri(probe[1].input.uri, probe[1].input.ident)
       IN Invoke("rewrite_uri_twice",
                 [once |-> once,
                  twice |-> IF once = None THEN None
                            ELSE rewrite_uri(once[1], probe[1].input.ident)])

\* Localizer::get_locale on a Localizer filled by add_bundle
invoke_get_locale ==
    /\ probe # None
    /\ Invoke("get_locale",
              get_locale(probe[1].input.locales, probe[1].input.keys, probe[1].input.locale))

NextHelpers ==
    \/ invoke_supported
    \/ invoke_lang_code_from_uri
    \/ invoke_lang_code_from_headers
    \/ invoke_rewrite_uri
    \/ invoke_rewrite_uri_twice
    \/ invoke_get_locale

SpecHelpers == InitHelpers /\ [][NextHelpers]_vars

(***************************************************************************)
(* Vocabulary of the properties.                                           *)
(***************************************************************************)
PathPrefixMode == redirect_mode \in {"RedirectToFullLocaleSubPath", "RedirectToLanguageSubPath"}

\* the record is of a call(), of a first request or of one that follows a redirect
Called == op \in {"call", "follow"}

\* the request call() was given
TheRequest == req[1]

\* the representation of a locale in a URI: the full tag, or the language subtag only
Representation(ident) ==
    IF redirect_mode = "RedirectToFullLocaleSubPath"
    THEN langid_to_string(ident)
    ELSE language_to_string(ident.language)

\* the path starts with some entry of the exclusion list
StartsWithExcluded(path) == \E e \in Range(excluded_paths) : starts_with(path, e)

\* the locale a redirect names: the Header Parser's result, else the default locale
PreferredLocale(headers) ==
    IF lang_code_from_headers(headers) # None
    THEN lang_code_from_headers(headers)[1]
    ELSE default_lang

RedirectTo(location) ==
    Some([kind |-> "response", status |-> 302, location |-> Some(location), body |-> <<>>])

(***************************************************************************)
(* C1 (as claimed): in a path-prefix mode, a request whose path yields no  *)
(* locale and does not start with an excluded prefix is answered, without  *)
(* the downstream handler, by 302 Found with an empty body and Location    *)
(* "/" + representation of the preferred locale + path + "?" + query.      *)
(***************************************************************************)
C1_RedirectTarget ==
    (Called /\ PathPrefixMode
        /\ lang_code_from_uri(TheRequest.uri) = None
        /\ ~StartsWithExcluded(uri_path(TheRequest.uri)))
    => /\ response =
            RedirectTo(<<"/">> \o Representation(PreferredLocale(TheRequest.headers))
                       \o TheRequest.uri.path
                       \o (IF TheRequest.uri.query = None THEN <<>>
                           ELSE <<"?">> \o TheRequest.uri.query[1]))
       /\ inner_calls = 0

(***************************************************************************)
(* C2: in NoRedirect mode every request is forwarded once to the           *)
(* downstream handler with its URI unchanged and with the Header Parser's  *)
(* result attached, or the default locale when the header is missing,      *)
(* unreadable or names no supported language; the answer is the downstream *)
(* handler's, never a redirect of this layer.                              *)
(***************************************************************************)
C2_NoRedirectForwards ==
    (Called /\ redirect_mode = "NoRedirect")
    => /\ inner_calls = 1
       /\ inner_req = Some([uri |-> TheRequest.uri, headers |-> TheRequest.headers,
                            extensions |-> Some(PreferredLocale(TheRequest.headers))])
       /\ (TheRequest.headers = None \/ header_to_str(TheRequest.headers[1]) = None)
            => inner_req[1].extensions = Some(default_lang)
       /\ response = inner_result
       /\ (response # None /\ response[1].kind = "response") => response[1].status # 302

\* a NoRedirect request without Accept-Language on a locale-less path: the default is attached
C2_Witness ==
    /\ op = "call"
    /\ redirect_mode = "NoRedirect"
    /\ TheRequest.headers = None
    /\ TheRequest.uri.path = <<"/","l","i","s","t","s">>
    /\ inner_calls = 1
    /\ inner_req[1].extensions = Some(default_lang)

(***************************************************************************)
(* C3 (as claimed): in a path-prefix mode, a request whose first path      *)
(* segment the Path Parser accepts is forwarded to the downstream handler  *)
(* with that locale attached and with the first path segment removed from  *)
(* the URI, and no redirect is issued.                                     *)
(***************************************************************************)
\* the path without its first segment: "/en/lists" -> "/lists", "/en/" and "/en" -> "/"
WithoutFirstSegment(path) ==
    LET rest == Tail(path)
        i == find_char(rest, {"/"})
    IN IF i = 0 THEN <<"/">> ELSE SubSeq(rest, i, Len(rest))

C3_PrefixRemoved ==
    (Called /\ PathPrefixMode /\ lang_code_from_uri(TheRequest.uri) # None)
    => /\ inner_calls = 1
       /\ inner_req =
            Some([uri |-> [TheRequest.uri EXCEPT !.path = WithoutFirstSegment(@)],
                  headers |-> TheRequest.headers,
                  extensions |-> lang_code_from_uri(TheRequest.uri)])
       /\ response = inner_result

(***************************************************************************)
(* C4 (as claimed): rewrite_uri, given a URI and the locale resolved from  *)
(* it, replaces only the leading path prefix "/<representation>/" by "/":  *)
(* the rest of the path and the query string are preserved exactly, and a  *)
(* URI whose path does not start with that prefix is left as it is.        *)
(***************************************************************************)
LeadingPrefixReplaced(uri, ident) ==
    LET prefix == <<"/">> \o Representation(ident) \o <<"/">>
    IN IF starts_with(uri.path, prefix)
       THEN [uri EXCEPT !.path = SubSeq(@, Len(prefix), Len(@))]
       ELSE uri

C4_OnlyLeadingPrefix ==
    (op = "rewrite_uri" /\ lang_code_from_uri(probe[1].input.uri) = Some(probe[1].input.ident))
    => probe[1].output = Some(LeadingPrefixReplaced(probe[1].input.uri, probe[1].input.ident))

(***************************************************************************)
(* C5: in a path-prefix mode, a request whose path has no locale in its    *)
(* first segment and starts with an entry of the exclusion list is         *)
(* forwarded once, with the same URI and no locale attached, and the       *)
(* answer is the downstream handler's, whatever the Accept-Language header.*)
(***************************************************************************)
C5_ExcludedPassThrough ==
    (Called /\ PathPrefixMode
        /\ lang_code_from_uri(TheRequest.uri) = None
        /\ StartsWithExcluded(uri_path(TheRequest.uri)))
    => /\ inner_calls = 1
       /\ inner_req = Some([uri |-> TheRequest.uri, headers |-> TheRequest.headers,
                            extensions |-> None])
       /\ response = inner_result
       /\ "header" \notin Range(consulted)

\* "/lists/en" under the exclusion "/lists", with a header that names a supported language
C5_Witness ==
    /\ op = "call"
    /\ PathPrefixMode
    /\ TheRequest.uri.path = <<"/","l","i","s","t","s","/","e","n">>
    /\ TheRequest.headers = Some(<<"j","a",";","q","=","0",".","9">>)
    /\ <<"/","l","i","s","t","s">> \in Range(excluded_paths)
    /\ inner_calls = 1
    /\ inner_req[1].extensions = None

(***************************************************************************)
(* Vocabulary of the parser properties.                                    *)
(***************************************************************************)
\* some entry of the supported list has the language subtag of ident
SupportedLanguage(ident) == ident.language \in {s.language : s \in Range(supported_langs)}

\* the locale tag a piece of text names, if it names one whose language is supported
SupportedTag(text) ==
    IF parse_langid(text) # None /\ SupportedLanguage(parse_langid(text)[1])
    THEN parse_langid(text)
    ELSE None

\* an Accept-Language entry without its ';' quality suffix
BeforeSemicolon(entry) == split(entry, {";"})[1]

(***************************************************************************)
(* C6: for an Accept-Language value that is not itself one supported tag,  *)
(* lang_code_from_headers returns the first comma-separated entry, in      *)
(* header order, that parses as a locale tag once its ';' suffix is        *)
(* stripped and whose language is supported, whatever the quality values;  *)
(* entries that fail to parse are skipped; with no such entry it returns   *)
(* nothing.                                                                *)
(***************************************************************************)
C6_FirstSupportedEntry ==
    (op = "lang_code_from_headers"
        /\ probe[1].input # None
        /\ header_to_str(probe[1].input[1]) # None
        /\ SupportedTag(probe[1].input[1]) = None)
    => LET entries == split(probe[1].input[1], {","})
           wins(i) == /\ SupportedTag(BeforeSemicolon(entries[i])) # None
                      /\ \A j \in 1..(i-1) : SupportedTag(BeforeSemicolon(entries[j])) = None
       IN /\ \A i \in 1..Len(entries) :
                wins(i) => probe[1].output = SupportedTag(BeforeSemicolon(entries[i]))
          /\ (\A i \in 1..Len(entries) : ~wins(i)) => probe[1].output = None

\* "*,en;q=0.5": the wildcard is skipped and the entry after it wins
C6_Witness ==
    /\ op = "lang_code_from_headers"
    /\ probe[1].input = Some(<<"*",",","e","n",";","q","=","0",".","5">>)
    /\ probe[1].output = Some(ENGLISH)

(***************************************************************************)
(* C7 (as claimed): lang_code_from_uri returns a locale exactly when the   *)
(* text between the first and the second '/' of the path parses as a       *)
(* locale tag whose language is supported, and then returns that tag; a    *)
(* path without a second '/' has no such segment and yields nothing.       *)
(***************************************************************************)
SlashPositions(path) == {i \in 1..Len(path) : path[i] = "/"}

NthSlash(path, n) ==
    CHOOSE i \in SlashPositions(path) :
        Cardinality({j \in SlashPositions(path) : j < i}) = n - 1

C7_BetweenFirstAndSecondSlash ==
    op = "lang_code_from_uri"
    => LET path == uri_path(probe[1].input)
       IN probe[1].output =
            IF Cardinality(SlashPositions(path)) >= 2
            THEN SupportedTag(SubSeq(path, NthSlash(path, 1) + 1, NthSlash(path, 2) - 1))
            ELSE None

(***************************************************************************)
(* C7 (amended): lang_code_from_uri returns a locale exactly when the      *)
(* first path segment, the text after the first '/' up to the second '/'   *)
(* or, when there is none, up to the end of the path, parses as a locale   *)
(* tag whose language is supported, and then returns that tag.             *)
(***************************************************************************)
FirstSegment(path) ==
    IF Cardinality(SlashPositions(path)) >= 2
    THEN SubSeq(path, NthSlash(path, 1) + 1, NthSlash(path, 2) - 1)
    ELSE SubSeq(path, NthSlash(path, 1) + 1, Len(path))

C7_FirstSegment ==
    op = "lang_code_from_uri"
    => probe[1].output =
         IF SlashPositions(uri_path(probe[1].input)) # {}
         THEN SupportedTag(FirstSegment(uri_path(probe[1].input)))
         ELSE None

\* "/EN", a path without a second '/', yields the tag en
C7_Witness ==
    /\ op = "lang_code_from_uri"
    /\ probe[1].input.path = <<"/","E","N">>
    /\ probe[1].output = Some(ENGLISH)

(***************************************************************************)
(* C8: supported(tag) is true if and only if some entry of the supported   *)
(* list has the language subtag of tag; the region and script of the tag   *)
(* and of the entries do not matter.                                       *)
(***************************************************************************)
C8_SupportedByLanguage ==
    op = "supported"
    => /\ probe[1].output = SupportedLanguage(probe[1].input)
       /\ \A other \in Idents :
            other.language = probe[1].input.language => supported(other) = probe[1].output

\* a list that holds only en-US accepts en
C8_Witness ==
    /\ op = "supported"
    /\ supported_langs = <<ENGLISH_US>>
    /\ probe[1].input = ENGLISH
    /\ probe[1].output = TRUE

(***************************************************************************)
(* C9 (as claimed): in a path-prefix mode call() runs the Path Parser      *)
(* first; when the path yields a locale, that locale is attached and the   *)
(* forwarded request is the same for every Accept-Language value; the      *)
(* Header Parser runs only after the path yielded nothing and the path is  *)
(* not excluded.                                                           *)
(***************************************************************************)
C9_PathBeforeHeader ==
    (Called /\ PathPrefixMode)
    => /\ consulted[1] = "path"
       /\ "header" \in Range(consulted)
            => /\ consulted = <<"path", "header">>
               /\ lang_code_from_uri(TheRequest.uri) = None
               /\ ~StartsWithExcluded(uri_path(TheRequest.uri))
       /\ lang_code_from_uri(TheRequest.uri) # None
            => /\ inner_req # None
               /\ inner_req[1].extensions = lang_code_from_uri(TheRequest.uri)
               /\ \A h \in CallHeaders :
                    LET other == call_result([TheRequest EXCEPT !.headers = h])
                    IN /\ other.inner_req # None
                       /\ other.inner_req[1].uri = inner_req[1].uri
                       /\ other.inner_req[1].extensions = inner_req[1].extensions

(***************************************************************************)
(* C10: call() invokes the downstream handler at most once: exactly once   *)
(* on a pass-through (NoRedirect mode, the locale of the path attached, an *)
(* excluded path without a locale), and then its future yields the         *)
(* handler's response or error unchanged; never when call() answers by     *)
(* itself, with the redirect or with a failed expect().  poll_ready        *)
(* returns the downstream handler's readiness.                             *)
(***************************************************************************)
\* the requests call() passes on: in a path-prefix mode those with a locale in the path
\* that rewrite_uri does not fail on, and those without one under an excluded prefix
PassThrough ==
    \/ redirect_mode = "NoRedirect"
    \/ /\ lang_code_from_uri(TheRequest.uri) # None
       /\ rewrite_uri(TheRequest.uri, lang_code_from_uri(TheRequest.uri)[1]) # None
    \/ /\ lang_code_from_uri(TheRequest.uri) = None
       /\ StartsWithExcluded(uri_path(TheRequest.uri))

C11_RewriteIdempotent ==
    (op = "rewrite_uri_twice"
        /\ lang_code_from_uri(probe[1].input.uri) = Some(probe[1].input.ident)
        /\ probe[1].output.once # None
        /\ ~starts_with(uri_path(probe[1].output.once[1]),
                        <<"/">> \o Representation(probe[1].input.ident) \o <<"/">>))
    => probe[1].output.twice = probe[1].output.once

(***************************************************************************)
(* C12: Localizer::get_locale returns the bundle registered under a key    *)
(* fully equal to the requested tag when there is one; otherwise a bundle  *)
(* registered under some key with the same language subtag; and nothing    *)
(* exactly when no registered key shares the language of the tag.          *)
(***************************************************************************)
C12_ExactThenLanguage ==
    op = "get_locale"
    => LET locales == probe[1].input.locales
           locale == probe[1].input.locale
           sameLanguage == {k \in DOMAIN locales : k.language = locale.language}
       IN /\ locale \in DOMAIN locales => probe[1].output = Some(locales[locale])
          /\ locale \notin DOMAIN locales
                => probe[1].output \in {Some(locales[k]) : k \in sameLanguage} \cup {None}
          /\ probe[1].output = None <=> sameLanguage = {}

\* en-US and en-GB are registered and en is asked for: the en-GB bundle is a possible answer
C12_Witness ==
    /\ op = "get_locale"
    /\ DOMAIN probe[1].input.locales = {ENGLISH_US, ENGLISH_GB}
    /\ probe[1].input.locale = ENGLISH
    /\ probe[1].output # None
    /\ probe[1].output[1].locale = ENGLISH_GB

(***************************************************************************)
(* C13: in a path-prefix mode a client that follows the Location of a 302  *)
(* of call() with the same headers is not redirected again: the request it *)
(* makes reaches the downstream handler.                                   *)
(***************************************************************************)
C13_NoRedirectLoop ==
    op = "follow"
    => /\ inner_calls = 1
       /\ inner_req # None
       /\ response # None => response = inner_result

(***************************************************************************)
(* C14: in the path-prefix modes the request that follows a redirect       *)
(* reaches the downstream handler with the path and the query of the       *)
(* request that was redirected: rewrite_uri undoes build_redirect_path.    *)
(***************************************************************************)
C14_RedirectRewriteRoundTrip ==
    op = "follow"
    => /\ inner_req # None
       /\ inner_req[1].uri.path = uri_path(probe[1].input.uri)
       /\ inner_req[1].uri.query = uri_query(probe[1].input.uri)

(***************************************************************************)
(* C15: a locale call() attaches to a request has the language of some     *)
(* entry of supported_langs or is default_lang; in the path-prefix modes   *)
(* it always has the language of a supported entry, and it is default_lang *)
(* only if the first segment of the path names default_lang.               *)
(***************************************************************************)
C15_AttachedLocale ==
    (Called /\ inner_req # None /\ inner_req[1].extensions # None)
    => LET attached == inner_req[1].extensions[1]
       IN /\ SupportedLanguage(attached) \/ attached = default_lang
          /\ PathPrefixMode
                => /\ SupportedLanguage(attached)
                   /\ attached = default_lang
                        => parse_langid(FirstSegment(uri_path(TheRequest.uri)))
                                = Some(default_lang)

\* NoRedirect, "de" is the default and not supported, no Accept-Language: de is attached
C15_Witness ==
    /\ op = "call"
    /\ redirect_mode = "NoRedirect"
    /\ default_lang = GERMAN
    /\ ~SupportedLanguage(GERMAN)
    /\ TheRequest.headers = None
    /\ inner_req # None
    /\ inner_req[1].extensions = Some(GERMAN)

====
